---------------------------- MODULE Spec2Model ----------------------------
(* whitespace-rs: the line-ending engine (ender.rs) and the indentation   *)
(* engine (spacer.rs).  A reader is a sequence of bytes; the UTF-8        *)
(* decoder turns it into characters (code points) or a decode error; a    *)
(* writer is the sequence of bytes written so far.  One action is one     *)
(* iteration of a function's decode loop.                                 *)
EXTENDS Integers, Sequences, FiniteSets, TLC

(**************************************************************************)
(* Bounds of the model.                                                   *)
(**************************************************************************)
MaxLenEol == 5
MaxLenBol == 4
MaxTab == 2
MaxCount == 3
MaxLenSink == 3
MaxFailAt == 3
MaxLenBoth == 4
MaxLenRun == 3

(**************************************************************************)
(* Characters and bytes the code names.                                   *)
(**************************************************************************)
CR == 13
LF == 10
SP == 32
TAB == 9
\* bytes the model feeds besides the four above: 97 ('a'), and 195 and 169,
\* the two bytes of U+00E9, which are valid together in that order and a
\* decode error on their own or in the other order (195 at the end of the
\* stream or before a byte that is no continuation, 169 where a character
\* starts)
OtherBytes == {97, 195, 169}

EolBytes == {CR, LF} \cup OtherBytes
BolBytes == {SP, TAB, LF} \cup OtherBytes

\* bytes of a reader handed to both rewrites, one after the other
BothBytes == {CR, LF, SP, TAB, 97}

SeqsUpTo(S, n) == UNION {[1..k -> S] : k \in 0..n}

(**************************************************************************)
(* The decoder: UnsafeDecoder::new(reader.bytes()).peekable()             *)
(**************************************************************************)
\* an item of the decoder: a character, a decode error, or end of stream
CharItem(c) == [kind |-> "char", ch |-> c]
ErrItem == [kind |-> "err", ch |-> 0]
NoneItem == [kind |-> "none", ch |-> 0]
\* the Peekable's slot when nothing has been peeked
NoPeek == [kind |-> "nopeek", ch |-> 0]

NewDecoder(bytes) == [bytes |-> bytes, pos |-> 0, peeked |-> NoPeek]

\* number of continuation bytes the lead byte a announces; -1: not a lead
Continuations(a) ==
  IF a < 128 THEN 0
  ELSE IF a \div 32 = 6 THEN 1
  ELSE IF a \div 16 = 14 THEN 2
  ELSE IF a \div 8 = 30 THEN 3
  ELSE -1

\* payload bits of the lead byte a
LeadBits(a) ==
  IF a < 128 THEN a
  ELSE IF a \div 32 = 6 THEN a % 32
  ELSE IF a \div 16 = 14 THEN a % 16
  ELSE a % 8

\* read n continuation bytes after position pos, accumulating into acc
RECURSIVE ReadContinuations(_, _, _, _)
ReadContinuations(bytes, pos, n, acc) ==
  IF n = 0 THEN [item |-> CharItem(acc), pos |-> pos]
  ELSE IF pos >= Len(bytes) THEN [item |-> ErrItem, pos |-> pos]
  ELSE IF bytes[pos + 1] \div 64 # 2 THEN [item |-> ErrItem, pos |-> pos + 1]
  ELSE ReadContinuations(bytes, pos + 1, n - 1, (acc * 64) + (bytes[pos + 1] % 64))

\* the decoder's next(): one item, and the reader position after it
DecodeAt(bytes, pos) ==
  IF pos >= Len(bytes) THEN [item |-> NoneItem, pos |-> pos]
  ELSE LET a == bytes[pos + 1] IN
    IF Continuations(a) < 0 THEN [item |-> ErrItem, pos |-> pos + 1]
    ELSE ReadContinuations(bytes, pos + 1, Continuations(a), LeadBits(a))

\* Peekable::next
PeekableNext(d) ==
  IF d.peeked # NoPeek
  THEN [item |-> d.peeked, d |-> [d EXCEPT !.peeked = NoPeek]]
  ELSE LET r == DecodeAt(d.bytes, d.pos) IN
       [item |-> r.item, d |-> [d EXCEPT !.pos = r.pos]]

\* Peekable::peek
PeekablePeek(d) ==
  IF d.peeked # NoPeek
  THEN [item |-> d.peeked, d |-> d]
  ELSE LET r == DecodeAt(d.bytes, d.pos) IN
       [item |-> r.item, d |-> [d EXCEPT !.pos = r.pos, !.peeked = r.item]]

\* matches!(decoder.peek(), Some(Ok(c)) if *c == '\n')
PeekIsLf(d) ==
  LET p == PeekablePeek(d) IN p.item.kind = "char" /\ p.item.ch = LF

\* char::encode_utf8(..).as_bytes()
EncodeUtf8(c) ==
  IF c < 128 THEN <<c>>
  ELSE IF c < 2048 THEN <<192 + (c \div 64), 128 + (c % 64)>>
  ELSE IF c < 65536
    THEN <<224 + (c \div 4096), 128 + ((c \div 64) % 64), 128 + (c % 64)>>
  ELSE <<240 + (c \div 262144), 128 + ((c \div 4096) % 64),
         128 + ((c \div 64) % 64), 128 + (c % 64)>>

(**************************************************************************)
(* The writer: a sink that appends what it is given.                      *)
(**************************************************************************)
\* a sink: what it holds (buf), the calls made on it (writes, flushes),
\* whether the last call returned Err (err), and how it behaves: its
\* fail_at-th write returns Err (0: none does), a short sink takes only
\* the first byte of the buffer it is handed and returns that count, and
\* flush_fails makes flush return Err
Sink(fail_at, short, flush_fails) ==
  [buf |-> <<>>, flushes |-> 0, writes |-> 0, err |-> FALSE,
   fail_at |-> fail_at, short |-> short, flush_fails |-> flush_fails]

\* the sink of the repository's tests, a Vec<u8>: every write takes the
\* whole buffer and nothing fails
NewWriter == Sink(0, FALSE, FALSE)

\* writer.write(bytes)
WriterWrite(w, bytes) ==
  IF w.writes + 1 = w.fail_at
  THEN [w EXCEPT !.writes = @ + 1, !.err = TRUE]
  ELSE [w EXCEPT
          !.writes = @ + 1,
          !.err = FALSE,
          !.buf = @ \o (IF w.short /\ Len(bytes) > 1
                        THEN SubSeq(bytes, 1, 1) ELSE bytes)]

\* writer.flush()
WriterFlush(w) == [w EXCEPT !.flushes = @ + 1, !.err = w.flush_fails]

\* the ? on the Result of the writer call that ends a step: Err returns
\* from the function
Try(r) == IF r.writer.err THEN [r EXCEPT !.pc = "err"] ELSE r

(**************************************************************************)
(* ender.rs                                                               *)
(**************************************************************************)
EndOfLine == {"Cr", "Lf", "CrLf"}

\* an EolInfo that starts with no line counted
NewEolInfoNoLine == [cr |-> 0, lf |-> 0, crlf |-> 0, num_lines |-> 0]

NewEolInfo == [cr |-> 0, lf |-> 0, crlf |-> 0, num_lines |-> 1]

\* EolInfo::get_common_eol with the last comparison not strict
get_common_eol_ge(info) ==
  LET n == IF info.crlf > info.lf THEN info.crlf ELSE info.lf
      eol == IF info.crlf > info.lf THEN "CrLf" ELSE "Lf"
  IN IF info.cr >= n THEN "Cr" ELSE eol

\* EolInfo::get_common_eol with the first comparison not strict
get_common_eol_crlf_ge(info) ==
  LET n == IF info.crlf >= info.lf THEN info.crlf ELSE info.lf
      eol == IF info.crlf >= info.lf THEN "CrLf" ELSE "Lf"
  IN IF info.cr > n THEN "Cr" ELSE eol

get_common_eol(info) ==
  LET n == IF info.crlf > info.lf THEN info.crlf ELSE info.lf
      eol == IF info.crlf > info.lf THEN "CrLf" ELSE "Lf"
  IN IF info.cr > n THEN "Cr" ELSE eol

B2N(b) == IF b THEN 1 ELSE 0

num_endings(info) == B2N(info.cr > 0) + B2N(info.lf > 0) + B2N(info.crlf > 0)

\* read_eol_info's loop body that forgets the line a lone LF ends
ReadEolBodyNoLfLine(d, info) ==
  LET n == PeekableNext(d) IN
  IF n.item.kind = "none" THEN [d |-> n.d, eol_info |-> info, pc |-> "ok"]
  ELSE IF n.item.kind = "err" THEN [d |-> n.d, eol_info |-> info, pc |-> "err"]
  ELSE IF n.item.ch = CR THEN
    IF PeekIsLf(n.d)
    THEN [d |-> PeekableNext(PeekablePeek(n.d).d).d,
          eol_info |-> [info EXCEPT !.crlf = @ + 1, !.num_lines = @ + 1],
          pc |-> "loop"]
    ELSE [d |-> PeekablePeek(n.d).d,
          eol_info |-> [info EXCEPT !.cr = @ + 1, !.num_lines = @ + 1],
          pc |-> "loop"]
  ELSE IF n.item.ch = LF THEN
    [d |-> n.d, eol_info |-> [info EXCEPT !.lf = @ + 1], pc |-> "loop"]
  ELSE [d |-> n.d, eol_info |-> info, pc |-> "loop"]

\* read_eol_info's loop body without the lookahead: CR LF counts a CR, then
\* an LF
ReadEolBodyNoPeek(d, info) ==
  LET n == PeekableNext(d) IN
  IF n.item.kind = "none" THEN [d |-> n.d, eol_info |-> info, pc |-> "ok"]
  ELSE IF n.item.kind = "err" THEN [d |-> n.d, eol_info |-> info, pc |-> "err"]
  ELSE IF n.item.ch = CR THEN
    [d |-> n.d, eol_info |-> [info EXCEPT !.cr = @ + 1, !.num_lines = @ + 1],
     pc |-> "loop"]
  ELSE IF n.item.ch = LF THEN
    [d |-> n.d, eol_info |-> [info EXCEPT !.lf = @ + 1, !.num_lines = @ + 1],
     pc |-> "loop"]
  ELSE [d |-> n.d, eol_info |-> info, pc |-> "loop"]

\* read_eol_info's loop body that takes whatever follows a CR out of the
\* stream without looking at what it is
ReadEolBodySwallowsPeek(d, info) ==
  LET n == PeekableNext(d) IN
  IF n.item.kind = "none" THEN [d |-> n.d, eol_info |-> info, pc |-> "ok"]
  ELSE IF n.item.kind = "err" THEN [d |-> n.d, eol_info |-> info, pc |-> "err"]
  ELSE IF n.item.ch = CR THEN
    IF PeekIsLf(n.d)
    THEN [d |-> PeekableNext(PeekablePeek(n.d).d).d,
          eol_info |-> [info EXCEPT !.crlf = @ + 1, !.num_lines = @ + 1],
          pc |-> "loop"]
    ELSE [d |-> PeekableNext(PeekablePeek(n.d).d).d,
          eol_info |-> [info EXCEPT !.cr = @ + 1, !.num_lines = @ + 1],
          pc |-> "loop"]
  ELSE IF n.item.ch = LF THEN
    [d |-> n.d, eol_info |-> [info EXCEPT !.lf = @ + 1, !.num_lines = @ + 1],
     pc |-> "loop"]
  ELSE [d |-> n.d, eol_info |-> info, pc |-> "loop"]

\* one iteration of read_eol_info's loop; pc: "loop" (go on), "ok"
\* (end of stream: Ok(eol_info)), "err" (value? returned the error)
ReadEolBody(d, info) ==
  LET n == PeekableNext(d) IN
  IF n.item.kind = "none" THEN [d |-> n.d, eol_info |-> info, pc |-> "ok"]
  ELSE IF n.item.kind = "err" THEN [d |-> n.d, eol_info |-> info, pc |-> "err"]
  ELSE IF n.item.ch = CR THEN
    IF PeekIsLf(n.d)
    THEN [d |-> PeekableNext(PeekablePeek(n.d).d).d,
          eol_info |-> [info EXCEPT !.crlf = @ + 1, !.num_lines = @ + 1],
          pc |-> "loop"]
    ELSE [d |-> PeekablePeek(n.d).d,
          eol_info |-> [info EXCEPT !.cr = @ + 1, !.num_lines = @ + 1],
          pc |-> "loop"]
  ELSE IF n.item.ch = LF THEN
    [d |-> n.d, eol_info |-> [info EXCEPT !.lf = @ + 1, !.num_lines = @ + 1],
     pc |-> "loop"]
  ELSE [d |-> n.d, eol_info |-> info, pc |-> "loop"]

RECURSIVE ReadEolLoop(_, _)
ReadEolLoop(d, info) ==
  LET r == ReadEolBody(d, info) IN
  IF r.pc = "loop" THEN ReadEolLoop(r.d, r.eol_info) ELSE r

\* read_eol_info on a whole reader: [pc |-> "ok" or "err", eol_info |-> ...]
read_eol_info(bytes) == ReadEolLoop(NewDecoder(bytes), NewEolInfo)

newline_chars(new_eol) ==
  IF new_eol = "Cr" THEN <<CR>>
  ELSE IF new_eol = "Lf" THEN <<LF>>
  ELSE <<CR, LF>>

\* write_new_eols' loop body that does not swallow the LF of a CR LF
WriteEolBodyNoPeek(d, w, lines, new_eol) ==
  LET n == PeekableNext(d) IN Try(
  IF n.item.kind = "none"
  THEN [d |-> n.d, writer |-> w, num_lines |-> lines, pc |-> "flush"]
  ELSE IF n.item.kind = "err"
  THEN [d |-> n.d, writer |-> w, num_lines |-> lines, pc |-> "err"]
  ELSE IF n.item.ch = CR \/ n.item.ch = LF THEN
    [d |-> n.d, writer |-> WriterWrite(w, newline_chars(new_eol)),
     num_lines |-> lines + 1, pc |-> "loop"]
  ELSE [d |-> n.d, writer |-> WriterWrite(w, EncodeUtf8(n.item.ch)),
        num_lines |-> lines, pc |-> "loop"])

\* write_new_eols' loop body that copies a lone LF through unchanged
WriteEolBodyLfVerbatim(d, w, lines, new_eol) ==
  LET n == PeekableNext(d) IN Try(
  IF n.item.kind = "none"
  THEN [d |-> n.d, writer |-> w, num_lines |-> lines, pc |-> "flush"]
  ELSE IF n.item.kind = "err"
  THEN [d |-> n.d, writer |-> w, num_lines |-> lines, pc |-> "err"]
  ELSE IF n.item.ch = CR THEN
    [d |-> IF PeekIsLf(n.d) THEN PeekableNext(PeekablePeek(n.d).d).d
           ELSE PeekablePeek(n.d).d,
     writer |-> WriterWrite(w, newline_chars(new_eol)),
     num_lines |-> lines + 1, pc |-> "loop"]
  ELSE IF n.item.ch = LF THEN
    [d |-> n.d, writer |-> WriterWrite(w, <<LF>>),
     num_lines |-> lines + 1, pc |-> "loop"]
  ELSE [d |-> n.d, writer |-> WriterWrite(w, EncodeUtf8(n.item.ch)),
        num_lines |-> lines, pc |-> "loop"])

\* one iteration of write_new_eols' loop; pc "flush": the loop broke at the
\* end of the stream and writer.flush() is next
WriteEolBody(d, w, lines, new_eol) ==
  LET n == PeekableNext(d) IN Try(
  IF n.item.kind = "none"
  THEN [d |-> n.d, writer |-> w, num_lines |-> lines, pc |-> "flush"]
  ELSE IF n.item.kind = "err"
  THEN [d |-> n.d, writer |-> w, num_lines |-> lines, pc |-> "err"]
  ELSE IF n.item.ch = CR THEN
    [d |-> IF PeekIsLf(n.d) THEN PeekableNext(PeekablePeek(n.d).d).d
           ELSE PeekablePeek(n.d).d,
     writer |-> WriterWrite(w, newline_chars(new_eol)),
     num_lines |-> lines + 1, pc |-> "loop"]
  ELSE IF n.item.ch = LF THEN
    [d |-> n.d, writer |-> WriterWrite(w, newline_chars(new_eol)),
     num_lines |-> lines + 1, pc |-> "loop"]
  ELSE [d |-> n.d, writer |-> WriterWrite(w, EncodeUtf8(n.item.ch)),
        num_lines |-> lines, pc |-> "loop"])

RECURSIVE WriteEolLoop(_, _, _, _)
WriteEolLoop(d, w, lines, new_eol) ==
  LET r == WriteEolBody(d, w, lines, new_eol) IN
  IF r.pc = "loop" THEN WriteEolLoop(r.d, r.writer, r.num_lines, new_eol)
  ELSE r

\* write_new_eols on a whole reader and an empty sink: pc "ok" with the
\* sink flushed, or "err" with what was written before the error
write_new_eols(bytes, new_eol) ==
  LET r == WriteEolLoop(NewDecoder(bytes), NewWriter, 1, new_eol) IN
  IF r.pc = "flush"
  THEN Try([r EXCEPT !.writer = WriterFlush(r.writer), !.pc = "ok"])
  ELSE r

(**************************************************************************)
(* spacer.rs                                                              *)
(**************************************************************************)
\* BeginningOfLine::Spaces(tab_size) and BeginningOfLine::Tabs(tab_size,
\* round_down); Spaces carries no round_down, kept FALSE here
Spaces(tab_size) ==
  [kind |-> "Spaces", tab_size |-> tab_size, round_down |-> FALSE]
Tabs(tab_size, round_down) ==
  [kind |-> "Tabs", tab_size |-> tab_size, round_down |-> round_down]

BeginningOfLine ==
  {Spaces(n) : n \in 0..MaxTab}
    \cup {Tabs(n, r) : n \in 0..MaxTab, r \in BOOLEAN}

NewBolInfo == [none |-> 0, spaces |-> 0, tabs |-> 0, mixed |-> 0]

\* BolInfo::get_common_bol with the comparison not strict
get_common_bol_ge(info, tab_size, round_down) ==
  IF info.tabs >= info.spaces THEN Tabs(tab_size, round_down)
  ELSE Spaces(tab_size)

get_common_bol(info, tab_size, round_down) ==
  IF info.tabs > info.spaces THEN Tabs(tab_size, round_down)
  ELSE Spaces(tab_size)

\* read_bol_info's loop body that classifies a run the stream ends in
ReadBolBodyCountsAtEof(d, info, bol, spaces, tabs) ==
  LET n == PeekableNext(d)
      same == [d |-> n.d, bol_info |-> info, at_bol |-> bol,
               num_spaces |-> spaces, num_tabs |-> tabs, pc |-> "loop"]
      classified ==
        IF spaces = 0 /\ tabs = 0 THEN [info EXCEPT !.none = @ + 1]
        ELSE IF spaces > 0 /\ tabs > 0 THEN [info EXCEPT !.mixed = @ + 1]
        ELSE IF spaces > 0 THEN [info EXCEPT !.spaces = @ + 1]
        ELSE [info EXCEPT !.tabs = @ + 1]
  IN
  IF n.item.kind = "none"
  THEN [same EXCEPT !.pc = "ok",
                    !.bol_info = IF bol /\ spaces + tabs > 0
                                 THEN classified ELSE info]
  ELSE IF n.item.kind = "err" THEN [same EXCEPT !.pc = "err"]
  ELSE IF bol THEN
    IF n.item.ch = SP THEN [same EXCEPT !.num_spaces = @ + 1]
    ELSE IF n.item.ch = TAB THEN [same EXCEPT !.num_tabs = @ + 1]
    ELSE [same EXCEPT !.bol_info = classified, !.at_bol = FALSE]
  ELSE IF n.item.ch = LF
    THEN [same EXCEPT !.num_spaces = 0, !.num_tabs = 0, !.at_bol = TRUE]
  ELSE same

\* one iteration of read_bol_info's loop
ReadBolBody(d, info, bol, spaces, tabs) ==
  LET n == PeekableNext(d)
      same == [d |-> n.d, bol_info |-> info, at_bol |-> bol,
               num_spaces |-> spaces, num_tabs |-> tabs, pc |-> "loop"]
  IN
  IF n.item.kind = "none" THEN [same EXCEPT !.pc = "ok"]
  ELSE IF n.item.kind = "err" THEN [same EXCEPT !.pc = "err"]
  ELSE IF bol THEN
    IF n.item.ch = SP THEN [same EXCEPT !.num_spaces = @ + 1]
    ELSE IF n.item.ch = TAB THEN [same EXCEPT !.num_tabs = @ + 1]
    ELSE [same EXCEPT
            !.bol_info =
              IF spaces = 0 /\ tabs = 0 THEN [info EXCEPT !.none = @ + 1]
              ELSE IF spaces > 0 /\ tabs > 0 THEN [info EXCEPT !.mixed = @ + 1]
              ELSE IF spaces > 0 THEN [info EXCEPT !.spaces = @ + 1]
              ELSE [info EXCEPT !.tabs = @ + 1],
            !.at_bol = FALSE]
  ELSE IF n.item.ch = LF
    THEN [same EXCEPT !.num_spaces = 0, !.num_tabs = 0, !.at_bol = TRUE]
  ELSE same

RECURSIVE ReadBolLoop(_, _, _, _, _)
ReadBolLoop(d, info, bol, spaces, tabs) ==
  LET r == ReadBolBody(d, info, bol, spaces, tabs) IN
  IF r.pc = "loop"
  THEN ReadBolLoop(r.d, r.bol_info, r.at_bol, r.num_spaces, r.num_tabs)
  ELSE r

\* read_bol_info on a whole reader
read_bol_info(bytes) == ReadBolLoop(NewDecoder(bytes), NewBolInfo, TRUE, 0, 0)

\* " ".repeat(n)
RepeatSpace(n) == [i \in 1..n |-> SP]

\* a tab size of 0 replaced by a default of 2 instead of 1
ClampTabDefaultTwo(tab_size) == IF tab_size = 0 THEN 2 ELSE tab_size

\* max(1, tab_size)
ClampTab(tab_size) == IF tab_size > 1 THEN tab_size ELSE 1

RECURSIVE UntabifyFrom(_, _, _, _)
UntabifyFrom(s, i, t, tab_size) ==
  IF i > Len(s) THEN t
  ELSE IF s[i] = TAB
    THEN UntabifyFrom(s, i + 1,
                      t \o RepeatSpace(tab_size - (Len(t) % tab_size)), tab_size)
  ELSE UntabifyFrom(s, i + 1, Append(t, s[i]), tab_size)

\* the untabify closure with every tab worth tab_size spaces, wherever it is
untabify_fixed(str, tab_size) ==
  RepeatSpace(Len(SelectSeq(str, LAMBDA c : c = SP))
              + (tab_size * Len(SelectSeq(str, LAMBDA c : c = TAB))))

\* the untabify closure of write_new_bols
untabify(s, tab_size) == UntabifyFrom(s, 1, <<>>, tab_size)

RECURSIVE TabifyFrom(_, _, _, _, _)
TabifyFrom(s, i, t, spaces, tab_size) ==
  IF i > Len(s) THEN [t |-> t, num_spaces |-> spaces]
  ELSE LET n == IF s[i] = SP THEN spaces + 1 ELSE spaces IN
       IF n % tab_size = 0
       THEN TabifyFrom(s, i + 1, Append(t, TAB), 0, tab_size)
       ELSE TabifyFrom(s, i + 1, t, n, tab_size)

\* the tabify loop without the reset of num_spaces after a tab
RECURSIVE TabifyFromNoReset(_, _, _, _, _)
TabifyFromNoReset(s, i, t, spaces, tab_size) ==
  IF i > Len(s) THEN [t |-> t, num_spaces |-> spaces]
  ELSE LET n == IF s[i] = SP THEN spaces + 1 ELSE spaces IN
       IF n % tab_size = 0
       THEN TabifyFromNoReset(s, i + 1, Append(t, TAB), n, tab_size)
       ELSE TabifyFromNoReset(s, i + 1, t, n, tab_size)

\* the tabify closure without the reset of num_spaces after a tab
tabify_no_reset(s, tab_size, round_down) ==
  LET r == TabifyFromNoReset(s, 1, <<>>, 0, tab_size) IN
  IF r.num_spaces > 0
  THEN IF ~round_down
       THEN [t |-> r.t \o RepeatSpace(r.num_spaces), num_spaces |-> r.num_spaces]
       ELSE [t |-> r.t, num_spaces |-> 0]
  ELSE r

\* the tabify closure that ignores round_down and always keeps the rest
tabify_keep_rest(s, tab_size, round_down) ==
  LET r == TabifyFrom(s, 1, <<>>, 0, tab_size) IN
  IF r.num_spaces > 0
  THEN [t |-> r.t \o RepeatSpace(r.num_spaces), num_spaces |-> r.num_spaces]
  ELSE r

\* the tabify closure that puts the rest in front of the tabs
tabify_rest_first(s, tab_size, round_down) ==
  LET r == TabifyFrom(s, 1, <<>>, 0, tab_size) IN
  IF r.num_spaces > 0
  THEN IF ~round_down
       THEN [t |-> RepeatSpace(r.num_spaces) \o r.t, num_spaces |-> r.num_spaces]
       ELSE [t |-> r.t, num_spaces |-> 0]
  ELSE r

\* the tabify closure of write_new_bols: (t, num_spaces)
tabify(s, tab_size, round_down) ==
  LET r == TabifyFrom(s, 1, <<>>, 0, tab_size) IN
  IF r.num_spaces > 0
  THEN IF ~round_down
       THEN [t |-> r.t \o RepeatSpace(r.num_spaces), num_spaces |-> r.num_spaces]
       ELSE [t |-> r.t, num_spaces |-> 0]
  ELSE r

\* write_new_bols' loop body that stays in at_bol mode after the first other
\* character of a line
WriteBolBodyStaysAtBol(d, w, info, str, bol, new) ==
  LET n == PeekableNext(d)
      tab_size == ClampTab(new.tab_size)
      round_down == new.round_down
      same == [d |-> n.d, writer |-> w, bol_info |-> info, s |-> str,
               at_bol |-> bol, pc |-> "loop"]
      c == n.item.ch
      u == untabify(str, tab_size)
      tn == tabify(u, tab_size, round_down)
      run == IF new.kind = "Tabs" THEN tn.t ELSE u
      counted ==
        IF Len(str) = 0 THEN [info EXCEPT !.none = @ + 1]
        ELSE IF new.kind = "Tabs"
          THEN IF tn.num_spaces > 0 THEN [info EXCEPT !.mixed = @ + 1]
               ELSE [info EXCEPT !.tabs = @ + 1]
        ELSE [info EXCEPT !.spaces = @ + 1]
      w1 == IF Len(str) = 0 THEN w ELSE WriterWrite(w, run)
      s1 == IF Len(str) = 0 THEN str ELSE run
  IN Try(
  IF n.item.kind = "none" THEN [same EXCEPT !.pc = "flush"]
  ELSE IF n.item.kind = "err" THEN [same EXCEPT !.pc = "err"]
  ELSE IF bol THEN
    IF c = SP \/ c = TAB THEN [same EXCEPT !.s = str \o EncodeUtf8(c)]
    ELSE [same EXCEPT
            !.bol_info = counted,
            !.writer = IF w1.err THEN w1
                        ELSE WriterWrite(w1, EncodeUtf8(c)),
            !.s = <<>>,
            !.at_bol = TRUE]
  ELSE [same EXCEPT
          !.writer = WriterWrite(w, EncodeUtf8(c)),
          !.s = IF c = LF THEN <<>> ELSE str,
          !.at_bol = (c = LF)])

\* write_new_bols' loop body that leaves at_bol mode at every character
\* other than space and tab, the newline of an empty line included
WriteBolBodyLfLeavesBol(d, w, info, str, bol, new) ==
  LET n == PeekableNext(d)
      tab_size == ClampTab(new.tab_size)
      round_down == new.round_down
      same == [d |-> n.d, writer |-> w, bol_info |-> info, s |-> str,
               at_bol |-> bol, pc |-> "loop"]
      c == n.item.ch
      u == untabify(str, tab_size)
      tn == tabify(u, tab_size, round_down)
      run == IF new.kind = "Tabs" THEN tn.t ELSE u
      counted ==
        IF Len(str) = 0 THEN [info EXCEPT !.none = @ + 1]
        ELSE IF new.kind = "Tabs"
          THEN IF tn.num_spaces > 0 THEN [info EXCEPT !.mixed = @ + 1]
               ELSE [info EXCEPT !.tabs = @ + 1]
        ELSE [info EXCEPT !.spaces = @ + 1]
      w1 == IF Len(str) = 0 THEN w ELSE WriterWrite(w, run)
      s1 == IF Len(str) = 0 THEN str ELSE run
  IN Try(
  IF n.item.kind = "none" THEN [same EXCEPT !.pc = "flush"]
  ELSE IF n.item.kind = "err" THEN [same EXCEPT !.pc = "err"]
  ELSE IF bol THEN
    IF c = SP \/ c = TAB THEN [same EXCEPT !.s = str \o EncodeUtf8(c)]
    ELSE [same EXCEPT
            !.bol_info = counted,
            !.writer = IF w1.err THEN w1
                        ELSE WriterWrite(w1, EncodeUtf8(c)),
            !.s = IF c = LF THEN <<>> ELSE s1,
            !.at_bol = FALSE]
  ELSE [same EXCEPT
          !.writer = WriterWrite(w, EncodeUtf8(c)),
          !.s = IF c = LF THEN <<>> ELSE str,
          !.at_bol = (c = LF)])

\* write_new_bols' loop body without the ? on the write of the run: the
\* terminating character is written whatever that write returned
WriteBolBodyRunUnchecked(d, w, info, str, bol, new) ==
  LET n == PeekableNext(d)
      tab_size == ClampTab(new.tab_size)
      round_down == new.round_down
      same == [d |-> n.d, writer |-> w, bol_info |-> info, s |-> str,
               at_bol |-> bol, pc |-> "loop"]
      c == n.item.ch
      u == untabify(str, tab_size)
      tn == tabify(u, tab_size, round_down)
      run == IF new.kind = "Tabs" THEN tn.t ELSE u
      counted ==
        IF Len(str) = 0 THEN [info EXCEPT !.none = @ + 1]
        ELSE IF new.kind = "Tabs"
          THEN IF tn.num_spaces > 0 THEN [info EXCEPT !.mixed = @ + 1]
               ELSE [info EXCEPT !.tabs = @ + 1]
        ELSE [info EXCEPT !.spaces = @ + 1]
      w1 == IF Len(str) = 0 THEN w ELSE WriterWrite(w, run)
      s1 == IF Len(str) = 0 THEN str ELSE run
  IN Try(
  IF n.item.kind = "none" THEN [same EXCEPT !.pc = "flush"]
  ELSE IF n.item.kind = "err" THEN [same EXCEPT !.pc = "err"]
  ELSE IF bol THEN
    IF c = SP \/ c = TAB THEN [same EXCEPT !.s = str \o EncodeUtf8(c)]
    ELSE [same EXCEPT
            !.bol_info = counted,
            !.writer = WriterWrite(w1, EncodeUtf8(c)),
            !.s = IF c = LF THEN <<>> ELSE s1,
            !.at_bol = (c = LF)]
  ELSE [same EXCEPT
          !.writer = WriterWrite(w, EncodeUtf8(c)),
          !.s = IF c = LF THEN <<>> ELSE str,
          !.at_bol = (c = LF)])

\* write_new_bols' loop body that rewrites and counts a run the stream ends
\* in
WriteBolBodyWritesRunAtEof(d, w, info, str, bol, new) ==
  LET n == PeekableNext(d)
      tab_size == ClampTab(new.tab_size)
      round_down == new.round_down
      same == [d |-> n.d, writer |-> w, bol_info |-> info, s |-> str,
               at_bol |-> bol, pc |-> "loop"]
      c == n.item.ch
      u == untabify(str, tab_size)
      tn == tabify(u, tab_size, round_down)
      run == IF new.kind = "Tabs" THEN tn.t ELSE u
      counted ==
        IF Len(str) = 0 THEN [info EXCEPT !.none = @ + 1]
        ELSE IF new.kind = "Tabs"
          THEN IF tn.num_spaces > 0 THEN [info EXCEPT !.mixed = @ + 1]
               ELSE [info EXCEPT !.tabs = @ + 1]
        ELSE [info EXCEPT !.spaces = @ + 1]
      w1 == IF Len(str) = 0 THEN w ELSE WriterWrite(w, run)
      s1 == IF Len(str) = 0 THEN str ELSE run
  IN Try(
  IF n.item.kind = "none"
  THEN [same EXCEPT !.pc = "flush",
                    !.writer = IF bol THEN w1 ELSE w,
                    !.bol_info = IF bol /\ Len(str) > 0 THEN counted ELSE info]
  ELSE IF n.item.kind = "err" THEN [same EXCEPT !.pc = "err"]
  ELSE IF bol THEN
    IF c = SP \/ c = TAB THEN [same EXCEPT !.s = str \o EncodeUtf8(c)]
    ELSE [same EXCEPT
            !.bol_info = counted,
            !.writer = IF w1.err THEN w1
                        ELSE WriterWrite(w1, EncodeUtf8(c)),
            !.s = IF c = LF THEN <<>> ELSE s1,
            !.at_bol = (c = LF)]
  ELSE [same EXCEPT
          !.writer = WriterWrite(w, EncodeUtf8(c)),
          !.s = IF c = LF THEN <<>> ELSE str,
          !.at_bol = (c = LF)])

\* one iteration of write_new_bols' loop
WriteBolBody(d, w, info, str, bol, new) ==
  LET n == PeekableNext(d)
      tab_size == ClampTab(new.tab_size)
      round_down == new.round_down
      same == [d |-> n.d, writer |-> w, bol_info |-> info, s |-> str,
               at_bol |-> bol, pc |-> "loop"]
      c == n.item.ch
      u == untabify(str, tab_size)
      tn == tabify(u, tab_size, round_down)
      run == IF new.kind = "Tabs" THEN tn.t ELSE u
      counted ==
        IF Len(str) = 0 THEN [info EXCEPT !.none = @ + 1]
        ELSE IF new.kind = "Tabs"
          THEN IF tn.num_spaces > 0 THEN [info EXCEPT !.mixed = @ + 1]
               ELSE [info EXCEPT !.tabs = @ + 1]
        ELSE [info EXCEPT !.spaces = @ + 1]
      w1 == IF Len(str) = 0 THEN w ELSE WriterWrite(w, run)
      s1 == IF Len(str) = 0 THEN str ELSE run
  IN Try(
  IF n.item.kind = "none" THEN [same EXCEPT !.pc = "flush"]
  ELSE IF n.item.kind = "err" THEN [same EXCEPT !.pc = "err"]
  ELSE IF bol THEN
    IF c = SP \/ c = TAB THEN [same EXCEPT !.s = str \o EncodeUtf8(c)]
    ELSE [same EXCEPT
            !.bol_info = counted,
            !.writer = IF w1.err THEN w1
                        ELSE WriterWrite(w1, EncodeUtf8(c)),
            !.s = IF c = LF THEN <<>> ELSE s1,
            !.at_bol = (c = LF)]
  ELSE [same EXCEPT
          !.writer = WriterWrite(w, EncodeUtf8(c)),
          !.s = IF c = LF THEN <<>> ELSE str,
          !.at_bol = (c = LF)])

RECURSIVE WriteBolLoop(_, _, _, _, _, _)
WriteBolLoop(d, w, info, str, bol, new) ==
  LET r == WriteBolBody(d, w, info, str, bol, new) IN
  IF r.pc = "loop"
  THEN WriteBolLoop(r.d, r.writer, r.bol_info, r.s, r.at_bol, new)
  ELSE r

\* write_new_bols on a whole reader and an empty sink: pc "ok" with the
\* sink flushed, or "err" with what was written before the error
write_new_bols(bytes, new) ==
  LET r == WriteBolLoop(NewDecoder(bytes), NewWriter, NewBolInfo, <<>>, TRUE,
                        new)
  IN IF r.pc = "flush"
     THEN Try([r EXCEPT !.writer = WriterFlush(r.writer), !.pc = "ok"])
     ELSE r

(**************************************************************************)
(* State.                                                                 *)
(**************************************************************************)
VARIABLES
  op,          \* the function being run
  input,       \* the reader's bytes
  decoder,     \* the Peekable decoder over the reader
  pc,          \* "loop", "flush", "call", "ok" (returned Ok), "err" (Err)
  eol_info,    \* read_eol_info's accumulator / get_common_eol's self
  new_eol,     \* write_new_eols' target
  num_lines,   \* write_new_eols' counter
  writer,      \* the sink
  common_eol,  \* get_common_eol's result ("" before the call)
  bol_info,    \* the BolInfo accumulator / get_common_bol's self
  at_bol,      \* read_bol_info's and write_new_bols' at_bol
  num_spaces,  \* read_bol_info's run counters
  num_tabs,
  s,           \* write_new_bols' buffered run
  new_bol,     \* write_new_bols' target / get_common_bol's arguments
  common_bol,  \* get_common_bol's result (NoBol before the call)
  cmd          \* the frame of a command's run (NoRun outside one)

vars == <<op, input, decoder, pc, eol_info, new_eol, num_lines, writer,
          common_eol, bol_info, at_bol, num_spaces, num_tabs, s, new_bol,
          common_bol, cmd>>

eolVars == <<eol_info, new_eol, num_lines, common_eol>>
bolVars == <<bol_info, at_bol, num_spaces, num_tabs, s, new_bol, common_bol>>

NoBol == [kind |-> "", tab_size |-> 0, round_down |-> FALSE]

\* the frame of run: its arguments (arg is the option of -n, "none" without
\* it; output_file is TRUE for Some(path)), the offset of the reader in the
\* input file, what has happened so far, and what was printed
RunFrame(arg, output_file, tab_size, round_down) ==
  [arg |-> arg, output_file |-> output_file, tab_size |-> tab_size,
   round_down |-> round_down, pos |-> 0, scanned |-> "no", seeks |-> 0,
   opened |-> FALSE, created |-> FALSE, rewritten |-> "no",
   new_bol_info |-> [none |-> 0, spaces |-> 0, tabs |-> 0, mixed |-> 0],
   report |-> <<>>]

NoRun == RunFrame("none", FALSE, 0, FALSE)

\* what every call starts from, whatever the function
Fresh ==
  /\ decoder = NewDecoder(input)
  /\ eol_info = NewEolInfo
  /\ num_lines = 1
  /\ writer = NewWriter
  /\ common_eol = ""
  /\ bol_info = NewBolInfo
  /\ at_bol = TRUE
  /\ num_spaces = 0
  /\ num_tabs = 0
  /\ s = <<>>
  /\ common_bol = NoBol
  /\ cmd = NoRun

InitEol ==
  /\ op \in {"read_eol_info", "write_new_eols"}
  /\ input \in SeqsUpTo(EolBytes, MaxLenEol)
  /\ pc = "loop"
  /\ new_eol \in IF op = "write_new_eols" THEN EndOfLine ELSE {"Lf"}
  /\ new_bol = NoBol
  /\ Fresh

InitBol ==
  /\ op \in {"read_bol_info", "write_new_bols"}
  /\ input \in SeqsUpTo(BolBytes, MaxLenBol)
  /\ pc = "loop"
  /\ new_eol = "Lf"
  /\ new_bol \in IF op = "write_new_bols" THEN BeginningOfLine ELSE {NoBol}
  /\ Fresh

\* the accumulators a caller can hand to get_common_eol / get_common_bol
InitCommon ==
  /\ op \in {"get_common_eol", "get_common_bol"}
  /\ input = <<>>
  /\ pc = "call"
  /\ new_eol = "Lf"
  /\ decoder = NewDecoder(input)
  /\ num_lines = 1
  /\ writer = NewWriter
  /\ common_eol = ""
  /\ at_bol = TRUE
  /\ num_spaces = 0
  /\ num_tabs = 0
  /\ s = <<>>
  /\ common_bol = NoBol
  /\ cmd = NoRun
  /\ IF op = "get_common_eol"
     THEN /\ \E cr \in 0..MaxCount, lf \in 0..MaxCount, crlf \in 0..MaxCount :
               eol_info = [cr |-> cr, lf |-> lf, crlf |-> crlf,
                           num_lines |-> 1 + cr + lf + crlf]
          /\ bol_info = NewBolInfo
          /\ new_bol = NoBol
     ELSE /\ eol_info = NewEolInfo
          /\ bol_info \in [none : 0..MaxCount, spaces : 0..MaxCount,
                           tabs : 0..MaxCount, mixed : 0..MaxCount]
          /\ \E n \in 0..MaxTab, r \in BOOLEAN : new_bol = Tabs(n, r)

\* the sinks a caller can hand to the rewrites
Sinks ==
  {Sink(k, sh, ff) : k \in 0..MaxFailAt, sh \in BOOLEAN, ff \in BOOLEAN}

\* a rewrite into any sink
InitSink ==
  /\ op \in {"write_new_eols", "write_new_bols"}
  /\ input \in IF op = "write_new_eols" THEN SeqsUpTo(EolBytes, MaxLenSink)
               ELSE SeqsUpTo(BolBytes, MaxLenSink)
  /\ pc = "loop"
  /\ new_eol \in IF op = "write_new_eols" THEN EndOfLine ELSE {"Lf"}
  /\ new_bol \in IF op = "write_new_bols" THEN BeginningOfLine ELSE {NoBol}
  /\ writer \in Sinks
  /\ decoder = NewDecoder(input)
  /\ eol_info = NewEolInfo
  /\ num_lines = 1
  /\ common_eol = ""
  /\ bol_info = NewBolInfo
  /\ at_bol = TRUE
  /\ num_spaces = 0
  /\ num_tabs = 0
  /\ s = <<>>
  /\ common_bol = NoBol
  /\ cmd = NoRun

\* a rewrite of a reader that holds line endings and leading runs of every
\* kind
InitBoth ==
  /\ op \in {"write_new_eols", "write_new_bols"}
  /\ input \in SeqsUpTo(BothBytes, MaxLenBoth)
  /\ pc = "loop"
  /\ new_eol \in IF op = "write_new_eols" THEN EndOfLine ELSE {"Lf"}
  /\ new_bol \in IF op = "write_new_bols" THEN BeginningOfLine ELSE {NoBol}
  /\ Fresh

Init == InitEol \/ InitBol \/ InitCommon

\* one iteration of read_eol_info
ReadEolIter ==
  /\ op = "read_eol_info"
  /\ pc = "loop"
  /\ LET r == ReadEolBody(decoder, eol_info) IN
       /\ decoder' = r.d
       /\ eol_info' = r.eol_info
       /\ pc' = r.pc
  /\ UNCHANGED <<op, input, new_eol, num_lines, writer, common_eol, bolVars>>
  /\ UNCHANGED cmd

\* one iteration of write_new_eols
WriteEolIter ==
  /\ op = "write_new_eols"
  /\ pc = "loop"
  /\ LET r == WriteEolBody(decoder, writer, num_lines, new_eol) IN
       /\ decoder' = r.d
       /\ writer' = r.writer
       /\ num_lines' = r.num_lines
       /\ pc' = r.pc
  /\ UNCHANGED <<op, input, eol_info, new_eol, common_eol, bolVars>>
  /\ UNCHANGED cmd

\* write_new_eols returning Ok(num_lines) without the flush
WriteEolReturnsUnflushed ==
  /\ op = "write_new_eols"
  /\ pc = "flush"
  /\ pc' = "ok"
  /\ UNCHANGED <<op, input, decoder, writer, eolVars, bolVars>>
  /\ UNCHANGED cmd

\* writer.flush()?; Ok(num_lines)
WriteEolFlush ==
  /\ op = "write_new_eols"
  /\ pc = "flush"
  /\ writer' = WriterFlush(writer)
  /\ pc' = IF writer'.err THEN "err" ELSE "ok"
  /\ UNCHANGED <<op, input, decoder, eolVars, bolVars>>
  /\ UNCHANGED cmd

\* one iteration of read_bol_info
ReadBolIter ==
  /\ op = "read_bol_info"
  /\ pc = "loop"
  /\ LET r == ReadBolBody(decoder, bol_info, at_bol, num_spaces, num_tabs) IN
       /\ decoder' = r.d
       /\ bol_info' = r.bol_info
       /\ at_bol' = r.at_bol
       /\ num_spaces' = r.num_spaces
       /\ num_tabs' = r.num_tabs
       /\ pc' = r.pc
  /\ UNCHANGED <<op, input, writer, eolVars, s, new_bol, common_bol>>
  /\ UNCHANGED cmd

\* one iteration of write_new_bols
WriteBolIter ==
  /\ op = "write_new_bols"
  /\ pc = "loop"
  /\ LET r == WriteBolBody(decoder, writer, bol_info, s, at_bol, new_bol) IN
       /\ decoder' = r.d
       /\ writer' = r.writer
       /\ bol_info' = r.bol_info
       /\ s' = r.s
       /\ at_bol' = r.at_bol
       /\ pc' = r.pc
  /\ UNCHANGED <<op, input, eolVars, num_spaces, num_tabs, new_bol, common_bol>>
  /\ UNCHANGED cmd

\* writer.flush()?; Ok(bol_info)
WriteBolFlush ==
  /\ op = "write_new_bols"
  /\ pc = "flush"
  /\ writer' = WriterFlush(writer)
  /\ pc' = IF writer'.err THEN "err" ELSE "ok"
  /\ UNCHANGED <<op, input, decoder, eolVars, bolVars>>
  /\ UNCHANGED cmd

\* eol_info.get_common_eol()
GetCommonEol ==
  /\ op = "get_common_eol"
  /\ pc = "call"
  /\ common_eol' = get_common_eol(eol_info)
  /\ pc' = "ok"
  /\ UNCHANGED <<op, input, decoder, eol_info, new_eol, num_lines, writer,
                 bolVars>>
  /\ UNCHANGED cmd

\* bol_info.get_common_bol(tab_size, round_down)
GetCommonBol ==
  /\ op = "get_common_bol"
  /\ pc = "call"
  /\ common_bol' = get_common_bol(bol_info, new_bol.tab_size, new_bol.round_down)
  /\ pc' = "ok"
  /\ UNCHANGED <<op, input, decoder, writer, eolVars, bol_info, at_bol,
                 num_spaces, num_tabs, s, new_bol>>
  /\ UNCHANGED cmd

NextEol == ReadEolIter \/ WriteEolIter \/ WriteEolFlush
NextBol == ReadBolIter \/ WriteBolIter \/ WriteBolFlush
NextCommon == GetCommonEol \/ GetCommonBol
NextRewrite == WriteEolIter \/ WriteEolFlush \/ WriteBolIter \/ WriteBolFlush
Next == NextEol \/ NextBol \/ NextCommon

SpecEol == InitEol /\ [][NextEol]_vars
SpecBol == InitBol /\ [][NextBol]_vars
SpecCommon == InitCommon /\ [][NextCommon]_vars
SpecSink == InitSink /\ [][NextRewrite]_vars
SpecBoth == InitBoth /\ [][NextRewrite]_vars
Spec == Init /\ [][Next]_vars

(**************************************************************************)
(* The commands: run of bin/ender.rs and of bin/spacer.rs.                *)
(**************************************************************************)
\* the values of -n that ender and spacer take ("none": no -n given)
EndOfLineArg == {"cr", "lf", "cr-lf", "auto"}
BeginningOfLineArg == {"tabs", "spaces", "auto"}

\* what the reader has not yet handed out
RestOfFile == SubSeq(input, cmd.pos + 1, Len(input))

\* ender's name for the endings of the file it scanned
eol_type(info) ==
  IF num_endings(info) > 1 THEN "mixed"
  ELSE IF info.cr > 0 THEN "cr"
  ELSE IF info.lf > 0 THEN "lf"
  ELSE "cr-lf"

\* spacer's closure bol_type
bol_type(sp, tb) ==
  IF tb > 0 THEN (IF sp > 0 THEN "mixed" ELSE "tabs") ELSE "spaces"

InitRun ==
  /\ op \in {"ender", "spacer"}
  /\ input \in IF op = "ender" THEN SeqsUpTo(EolBytes, MaxLenRun)
               ELSE SeqsUpTo(BolBytes, MaxLenRun)
  /\ pc = "open"
  /\ new_eol = "Lf"
  /\ new_bol = NoBol
  /\ decoder = NewDecoder(input)
  /\ eol_info = NewEolInfo
  /\ num_lines = 1
  /\ writer = NewWriter
  /\ common_eol = ""
  /\ bol_info = NewBolInfo
  /\ at_bol = TRUE
  /\ num_spaces = 0
  /\ num_tabs = 0
  /\ s = <<>>
  /\ common_bol = NoBol
  /\ IF op = "ender"
     THEN \E a \in EndOfLineArg \cup {"none"}, o \in BOOLEAN :
            cmd = RunFrame(a, o, 0, FALSE)
     ELSE \E a \in BeginningOfLineArg \cup {"none"}, o \in BOOLEAN,
             n \in 0..MaxTab, r \in BOOLEAN :
            cmd = RunFrame(a, o, n, r)

\* what a step of run leaves alone besides the variables it names
loopVars == <<decoder, common_eol, at_bol, num_spaces, num_tabs, s, common_bol>>

\* run that creates the output file as soon as it has opened the input
RunOpenCreatesOutput ==
  /\ op \in {"ender", "spacer"}
  /\ pc = "open"
  /\ \E ok \in BOOLEAN :
       /\ pc' = IF ok THEN "scan" ELSE "err"
       /\ cmd' = IF ok /\ cmd.arg # "none"
                 THEN [cmd EXCEPT !.opened = TRUE, !.created = cmd.output_file]
                 ELSE cmd
  /\ UNCHANGED <<op, input, eol_info, new_eol, num_lines, writer, bol_info,
                 new_bol, loopVars>>

\* BufReader::new(File::open(Path::new(input_file))?)
RunOpen ==
  /\ op \in {"ender", "spacer"}
  /\ pc = "open"
  /\ \E ok \in BOOLEAN : pc' = IF ok THEN "scan" ELSE "err"
  /\ UNCHANGED <<op, input, eol_info, new_eol, num_lines, writer, bol_info,
                 new_bol, cmd, loopVars>>

\* ender: let eol_info = read_eol_info(&mut reader)?; let mut num_lines = ..
EnderScan ==
  /\ op = "ender"
  /\ pc = "scan"
  /\ \E r \in {read_eol_info(RestOfFile)} :
       /\ cmd' = [cmd EXCEPT !.pos = @ + r.d.pos, !.scanned = r.pc]
       /\ eol_info' = IF r.pc = "ok" THEN r.eol_info ELSE eol_info
       /\ num_lines' = IF r.pc = "ok" THEN r.eol_info.num_lines ELSE num_lines
       /\ pc' = IF r.pc = "err" THEN "err"
                ELSE IF cmd.arg = "none" THEN "report" ELSE "seek"
  /\ UNCHANGED <<op, input, new_eol, writer, bol_info, new_bol, loopVars>>

\* spacer: let bol_info = read_bol_info(&mut reader)?
SpacerScan ==
  /\ op = "spacer"
  /\ pc = "scan"
  /\ \E r \in {read_bol_info(RestOfFile)} :
       /\ cmd' = [cmd EXCEPT !.pos = @ + r.d.pos, !.scanned = r.pc]
       /\ bol_info' = IF r.pc = "ok" THEN r.bol_info ELSE bol_info
       /\ pc' = IF r.pc = "err" THEN "err"
                ELSE IF cmd.arg = "none" THEN "report" ELSE "seek"
  /\ UNCHANGED <<op, input, eol_info, new_eol, num_lines, writer, new_bol,
                 loopVars>>

\* ender: let new_eol = match eol_arg ..; reader.seek(SeekFrom::Start(0))?
EnderSeek ==
  /\ op = "ender"
  /\ pc = "seek"
  /\ new_eol' = IF cmd.arg = "auto" THEN get_common_eol(eol_info)
                ELSE IF cmd.arg = "lf" THEN "Lf"
                ELSE IF cmd.arg = "cr" THEN "Cr"
                ELSE "CrLf"
  /\ \E ok \in BOOLEAN :
       IF ok
       THEN /\ cmd' = [cmd EXCEPT !.pos = 0, !.seeks = @ + 1]
            /\ pc' = "create"
       ELSE /\ cmd' = cmd
            /\ pc' = "err"
  /\ UNCHANGED <<op, input, eol_info, num_lines, writer, bol_info, new_bol,
                 loopVars>>

\* spacer: let new_bol = match bol_arg ..; reader.seek(SeekFrom::Start(0))?
SpacerSeek ==
  /\ op = "spacer"
  /\ pc = "seek"
  /\ new_bol' = IF cmd.arg = "auto"
                THEN get_common_bol(bol_info, cmd.tab_size, cmd.round_down)
                ELSE IF cmd.arg = "tabs"
                THEN Tabs(cmd.tab_size, cmd.round_down)
                ELSE Spaces(cmd.tab_size)
  /\ \E ok \in BOOLEAN :
       IF ok
       THEN /\ cmd' = [cmd EXCEPT !.pos = 0, !.seeks = @ + 1]
            /\ pc' = "create"
       ELSE /\ cmd' = cmd
            /\ pc' = "err"
  /\ UNCHANGED <<op, input, eol_info, new_eol, num_lines, writer, bol_info,
                 loopVars>>

\* let mut writer: Box<dyn Write> = match output_file { Some(path) =>
\* BufWriter::new(File::create(..)?), None => stdout() }
RunCreate ==
  /\ op \in {"ender", "spacer"}
  /\ pc = "create"
  /\ \E ok \in BOOLEAN :
       IF cmd.output_file /\ ~ok
       THEN /\ cmd' = cmd
            /\ pc' = "err"
       ELSE /\ cmd' = [cmd EXCEPT !.opened = TRUE,
                                  !.created = cmd.output_file]
            /\ pc' = "rewrite"
  /\ writer' = NewWriter
  /\ UNCHANGED <<op, input, eol_info, new_eol, num_lines, bol_info, new_bol,
                 loopVars>>

\* ender: num_lines = write_new_eols(&mut reader, &mut writer, new_eol)?
EnderRewrite ==
  /\ op = "ender"
  /\ pc = "rewrite"
  /\ \E r \in {write_new_eols(RestOfFile, new_eol)} :
       /\ cmd' = [cmd EXCEPT !.pos = @ + r.d.pos, !.rewritten = r.pc]
       /\ writer' = r.writer
       /\ num_lines' = IF r.pc = "ok" THEN r.num_lines ELSE num_lines
       /\ pc' = IF r.pc = "ok" THEN "report" ELSE "err"
  /\ UNCHANGED <<op, input, eol_info, new_eol, bol_info, new_bol, loopVars>>

\* spacer: new_bol_info = Some(write_new_bols(&mut reader, &mut writer,
\* new_bol)?)
SpacerRewrite ==
  /\ op = "spacer"
  /\ pc = "rewrite"
  /\ \E r \in {write_new_bols(RestOfFile, new_bol)} :
       /\ cmd' = [cmd EXCEPT
                    !.pos = @ + r.d.pos,
                    !.rewritten = r.pc,
                    !.new_bol_info = IF r.pc = "ok" THEN r.bol_info
                                      ELSE cmd.new_bol_info]
       /\ writer' = r.writer
       /\ pc' = IF r.pc = "ok" THEN "report" ELSE "err"
  /\ UNCHANGED <<op, input, eol_info, new_eol, num_lines, bol_info, new_bol,
                 loopVars>>

\* ender: eprint!("'{}', {}, {} lines", ..) and the " -> .." part
EnderReport ==
  /\ op = "ender"
  /\ pc = "report"
  /\ cmd' = [cmd EXCEPT
               !.report = <<eol_type(eol_info)>>
                            \o (IF cmd.arg = "none" THEN <<>> ELSE <<cmd.arg>>)]
  /\ pc' = "ok"
  /\ UNCHANGED <<op, input, eol_info, new_eol, num_lines, writer, bol_info,
                 new_bol, loopVars>>

\* spacer: eprint!("'{}', {}", ..) and the " -> .." part
SpacerReport ==
  /\ op = "spacer"
  /\ pc = "report"
  /\ cmd' = [cmd EXCEPT
               !.report =
                 <<bol_type(bol_info.spaces, bol_info.tabs)>>
                   \o (IF cmd.rewritten = "ok"
                       THEN <<bol_type(cmd.new_bol_info.spaces,
                                       cmd.new_bol_info.tabs)>>
                       ELSE <<>>)]
  /\ pc' = "ok"
  /\ UNCHANGED <<op, input, eol_info, new_eol, num_lines, writer, bol_info,
                 new_bol, loopVars>>

NextRun ==
  \/ RunOpen
  \/ EnderScan
  \/ SpacerScan
  \/ EnderSeek
  \/ SpacerSeek
  \/ RunCreate
  \/ EnderRewrite
  \/ SpacerRewrite
  \/ EnderReport
  \/ SpacerReport

SpecRun == InitRun /\ [][NextRun]_vars

(**************************************************************************)
(* What the claims speak of, stated on the reader's bytes themselves.     *)
(**************************************************************************)
\* positions of the input where a CR LF pair, a lone CR, a lone LF starts
CrLfAt(bytes) ==
  {i \in 1..Len(bytes) : bytes[i] = CR /\ i < Len(bytes) /\ bytes[i + 1] = LF}
LoneCrAt(bytes) ==
  {i \in 1..Len(bytes) : bytes[i] = CR /\ (i = Len(bytes) \/ bytes[i + 1] # LF)}
LoneLfAt(bytes) ==
  {i \in 1..Len(bytes) : bytes[i] = LF /\ (i = 1 \/ bytes[i - 1] # CR)}

\* the byte sequence of an ending kind
EndingBytes(kind) ==
  CASE kind = "Cr" -> <<CR>>
    [] kind = "Lf" -> <<LF>>
    [] kind = "CrLf" -> <<CR, LF>>

\* bytes from position i on, with every ending replaced by nl: CR LF taken
\* as one, else a single CR, else a single LF; any other byte as it is
RECURSIVE ReplaceEndings(_, _, _)
ReplaceEndings(bytes, i, nl) ==
  IF i > Len(bytes) THEN <<>>
  ELSE IF i \in CrLfAt(bytes) THEN nl \o ReplaceEndings(bytes, i + 2, nl)
  ELSE IF bytes[i] = CR \/ bytes[i] = LF
    THEN nl \o ReplaceEndings(bytes, i + 1, nl)
  ELSE <<bytes[i]>> \o ReplaceEndings(bytes, i + 1, nl)

ReadEolOk == op = "read_eol_info" /\ pc = "ok"
WriteEolOk == op = "write_new_eols" /\ pc = "ok"

(**************************************************************************)
(* Claims.                                                                *)
(**************************************************************************)
\* C1: whenever read_eol_info returns Ok, the statistics satisfy
\* num_lines = 1 + cr + lf + crlf.
C1_LineCountIsOnePlusEndings ==
  ReadEolOk =>
    eol_info.num_lines = 1 + eol_info.cr + eol_info.lf + eol_info.crlf

\* a successful scan of an input holding all three kinds of ending
C1_Witness ==
  ReadEolOk /\ eol_info.cr > 0 /\ eol_info.lf > 0 /\ eol_info.crlf > 0

\* C2: whenever write_new_eols returns Ok, the sink holds the input with
\* each ending (CR LF greedily as one, else a lone CR, else a lone LF)
\* replaced by the target's bytes and every other byte unchanged, in order.
C2_OutputIsInputWithEndingsReplaced ==
  WriteEolOk =>
    writer.buf = ReplaceEndings(input, 1, EndingBytes(new_eol))

\* the shape of ender.rs's test_write_new_file: a\n\r\r\n to CRLF
C2_Witness ==
  /\ WriteEolOk
  /\ new_eol = "CrLf"
  /\ input = <<97, LF, CR, CR, LF>>
  /\ writer.buf = <<97, CR, LF, CR, LF, CR, LF>>

\* C3: whenever write_new_eols(input, K) returns Ok, read_eol_info on what
\* the sink holds succeeds, gives zero for the two counters other than K
\* (so at most one kind of ending remains), and gives the num_lines that
\* write_new_eols returned.
C3_OutputIsNormalized ==
  WriteEolOk =>
    LET r == read_eol_info(writer.buf) IN
      /\ r.pc = "ok"
      /\ num_endings(r.eol_info) <= 1
      /\ new_eol # "Cr" => r.eol_info.cr = 0
      /\ new_eol # "Lf" => r.eol_info.lf = 0
      /\ new_eol # "CrLf" => r.eol_info.crlf = 0
      /\ r.eol_info.num_lines = num_lines

\* a rewrite to CR of an input that holds a CR LF, a lone LF and a lone CR
C3_Witness ==
  /\ WriteEolOk
  /\ new_eol = "Cr"
  /\ CrLfAt(input) # {} /\ LoneLfAt(input) # {} /\ LoneCrAt(input) # {}

\* C4: read_eol_info's counters are exactly: crlf, the CRs immediately
\* followed by LF; cr, the CRs followed by anything else or by the end of
\* the stream; lf, the LFs that do not follow a CR; nothing else counts.
C4_EndingsClassifiedWithLookahead ==
  ReadEolOk =>
    /\ eol_info.crlf = Cardinality(CrLfAt(input))
    /\ eol_info.cr = Cardinality(LoneCrAt(input))
    /\ eol_info.lf = Cardinality(LoneLfAt(input))

\* ender.rs's test_read_eol_info_mixed1: \n\r\n\r
C4_Witness ==
  /\ ReadEolOk
  /\ input = <<LF, CR, LF, CR>>
  /\ eol_info = [cr |-> 1, lf |-> 1, crlf |-> 1, num_lines |-> 4]

\* C5: whenever write_new_eols returns Ok, the line count it returns is the
\* num_lines read_eol_info computes on the same input.
C5_RewriteCountsLinesAsScan ==
  WriteEolOk =>
    LET r == read_eol_info(input) IN
      r.pc = "ok" /\ num_lines = r.eol_info.num_lines

\* a rewrite of an input with a CR LF pair and another ending
C5_Witness ==
  /\ WriteEolOk
  /\ CrLfAt(input) # {}
  /\ LoneCrAt(input) \cup LoneLfAt(input) # {}
  /\ num_lines >= 3

GetCommonEolOk == op = "get_common_eol" /\ pc = "ok"
GetCommonBolOk == op = "get_common_bol" /\ pc = "ok"

Max2(a, b) == IF a >= b THEN a ELSE b

\* the counter of eol_info that belongs to an ending kind
CountOf(info, kind) ==
  CASE kind = "Cr" -> info.cr
    [] kind = "Lf" -> info.lf
    [] kind = "CrLf" -> info.crlf

\* C6: get_common_eol returns LF unless unseated: CRLF only when crlf > lf,
\* CR only when cr > max(lf, crlf), LF when neither; so the returned kind's
\* counter is the largest of the three, and lf = crlf never gives CRLF.
C6_LfUnlessUnseated ==
  GetCommonEolOk =>
    /\ common_eol \in EndOfLine
    /\ common_eol = "CrLf" => eol_info.crlf > eol_info.lf
    /\ common_eol = "Cr" => eol_info.cr > Max2(eol_info.lf, eol_info.crlf)
    /\ (eol_info.crlf <= eol_info.lf /\ eol_info.cr <= eol_info.lf)
         => common_eol = "Lf"
    /\ CountOf(eol_info, common_eol)
         = Max2(eol_info.cr, Max2(eol_info.lf, eol_info.crlf))
    /\ eol_info.lf = eol_info.crlf => common_eol # "CrLf"

\* lf and crlf tie above cr, and LF is returned
C6_Witness ==
  /\ GetCommonEolOk
  /\ eol_info.lf = eol_info.crlf /\ eol_info.lf > 0 /\ eol_info.cr = 0
  /\ common_eol = "Lf"

\* C7 as stated: whenever cr equals the largest of the three counters, ties
\* included, get_common_eol returns CR.
C7_CrWinsTies ==
  GetCommonEolOk =>
    (eol_info.cr = Max2(eol_info.cr, Max2(eol_info.lf, eol_info.crlf))
       => common_eol = "Cr")

\* C7 amended: get_common_eol returns CR exactly when cr is strictly greater
\* than both lf and crlf; when cr only ties with the largest counter the
\* result is LF if lf >= crlf and CRLF otherwise.
C7_CrOnlyOnStrictMajority ==
  GetCommonEolOk =>
    /\ common_eol = "Cr"
         <=> (eol_info.cr > eol_info.lf /\ eol_info.cr > eol_info.crlf)
    /\ (eol_info.cr = Max2(eol_info.lf, eol_info.crlf))
         => common_eol = IF eol_info.lf >= eol_info.crlf THEN "Lf" ELSE "CrLf"

\* cr ties with lf above crlf, and CR is not returned
C7_Witness ==
  /\ GetCommonEolOk
  /\ eol_info.cr = eol_info.lf /\ eol_info.cr > eol_info.crlf
  /\ common_eol = "Lf"

(**************************************************************************)
(* Lines and leading runs, stated on the reader's bytes themselves.       *)
(**************************************************************************)
IsBlank(b) == b = SP \/ b = TAB

\* first position of the LF-delimited line that position p lies on
LineStart(bytes, p) ==
  LET lfs == {j \in 1..(p - 1) : bytes[j] = LF} IN
  IF lfs = {} THEN 1 ELSE 1 + CHOOSE j \in lfs : \A k \in lfs : k <= j

\* p holds the first byte of its line that is neither space nor tab
IsFirstOther(bytes, p) ==
  /\ p \in 1..Len(bytes)
  /\ ~IsBlank(bytes[p])
  /\ \A j \in LineStart(bytes, p)..(p - 1) : IsBlank(bytes[j])

\* the leading run of spaces/tabs that ends just before position p
RunBefore(bytes, p) == SubSeq(bytes, LineStart(bytes, p), p - 1)

\* the category of a run of spaces/tabs
Category(run) ==
  LET sp == \E i \in 1..Len(run) : run[i] = SP
      tb == \E i \in 1..Len(run) : run[i] = TAB
  IN IF ~sp /\ ~tb THEN "none"
     ELSE IF sp /\ tb THEN "mixed"
     ELSE IF sp THEN "spaces"
     ELSE "tabs"

\* C8: when read_bol_info, going on, consumes the first character of a line
\* that is neither space nor tab, it adds one to exactly the counter of the
\* category of that line's leading run (none, mixed, spaces, tabs).
C8_EachLineClassifiedOnce ==
  [][(/\ op = "read_bol_info"
      /\ pc = "loop"
      /\ pc' = "loop"
      /\ IsFirstOther(input, decoder.pos + 1))
       => bol_info' =
            [bol_info EXCEPT
               ![Category(RunBefore(input, decoder.pos + 1))] = @ + 1]]_vars

\* C9: get_common_bol(tab_size, round_down) is Tabs(tab_size, round_down)
\* exactly when tabs > spaces and Spaces(tab_size) otherwise, a tie
\* included, whatever none and mixed are.
C9_TabsOnlyOnStrictMajority ==
  GetCommonBolOk =>
    /\ common_bol.tab_size = new_bol.tab_size
    /\ common_bol.kind =
         IF bol_info.tabs > bol_info.spaces THEN "Tabs" ELSE "Spaces"
    /\ common_bol.kind = "Tabs" => common_bol.round_down = new_bol.round_down

\* tabs and spaces tie above zero while none and mixed are larger, and
\* Spaces comes back with the tab size handed in
C9_Witness ==
  /\ GetCommonBolOk
  /\ bol_info.tabs = bol_info.spaces /\ bol_info.tabs > 0
  /\ bol_info.none > bol_info.tabs /\ bol_info.mixed > bol_info.tabs
  /\ new_bol.tab_size = 2
  /\ common_bol = Spaces(2)

\* the column a run of spaces/tabs reaches from column col when each tab
\* advances to the next multiple of w and each space advances by one
RECURSIVE Column(_, _, _, _)
Column(run, i, col, w) ==
  IF i > Len(run) THEN col
  ELSE IF run[i] = TAB THEN Column(run, i + 1, ((col \div w) + 1) * w, w)
  ELSE Column(run, i + 1, col + 1, w)

\* C10: with target Spaces(w), w >= 1, when write_new_bols consumes the
\* first other character of a line whose leading run is not empty, what it
\* writes is as many spaces as the column the run reaches with tab stops
\* every w columns, and nothing but spaces, followed by that character.
C10_SpacesRunReachesTabStops ==
  [][(/\ op = "write_new_bols"
      /\ new_bol.kind = "Spaces"
      /\ new_bol.tab_size >= 1
      /\ pc = "loop"
      /\ pc' = "loop"
      /\ IsFirstOther(input, decoder.pos + 1)
      /\ RunBefore(input, decoder.pos + 1) # <<>>)
       => writer'.buf =
            writer.buf
              \o RepeatSpace(Column(RunBefore(input, decoder.pos + 1), 1, 0,
                                    new_bol.tab_size))
              \o SubSeq(input, decoder.pos + 1, decoder'.pos)]_vars

\* spacer.rs's test_write_new_file_spaces, second line: space tab space x
\* to Spaces(2) gives three spaces and x
C10_Witness ==
  /\ op = "write_new_bols"
  /\ pc = "ok"
  /\ new_bol = Spaces(2)
  /\ input = <<SP, TAB, SP, 97>>
  /\ writer.buf = <<SP, SP, SP, 97>>

WriteBolOk == op = "write_new_bols" /\ pc = "ok"
ReadBolOk == op = "read_bol_info" /\ pc = "ok"

\* a step of write_new_bols that goes on and consumes the first character
\* of a line that is neither space nor tab
EndsLeadingRun ==
  /\ op = "write_new_bols"
  /\ pc = "loop"
  /\ pc' = "loop"
  /\ IsFirstOther(input, decoder.pos + 1)

\* in a step: the bytes of the character consumed, and what was written in
\* front of them
ConsumedBytes == SubSeq(input, decoder.pos + 1, decoder'.pos)
EmittedRun ==
  SubSeq(writer'.buf, Len(writer.buf) + 1,
         Len(writer'.buf) - (decoder'.pos - decoder.pos))

RepeatTab(n) == [i \in 1..n |-> TAB]

\* C11: with target Tabs(w, round_down), w >= 1, for a leading run whose
\* untabified length is n, write_new_bols writes floor(n / w) tabs followed
\* by n mod w spaces when round_down is false and by nothing when it is
\* true, then the terminating character; no tab follows a space.
C11_TabsThenRest ==
  [][(/\ EndsLeadingRun
      /\ new_bol.kind = "Tabs"
      /\ new_bol.tab_size >= 1
      /\ RunBefore(input, decoder.pos + 1) # <<>>)
       => LET n == Column(RunBefore(input, decoder.pos + 1), 1, 0,
                          new_bol.tab_size)
          IN writer'.buf =
               writer.buf
                 \o RepeatTab(n \div new_bol.tab_size)
                 \o (IF new_bol.round_down THEN <<>>
                     ELSE RepeatSpace(n % new_bol.tab_size))
                 \o ConsumedBytes]_vars

\* three spaces to Tabs(2, false) give a tab and a space
C11_Witness ==
  /\ WriteBolOk
  /\ new_bol = Tabs(2, FALSE)
  /\ input = <<SP, SP, SP, 97>>
  /\ writer.buf = <<TAB, SP, 97>>

\* C12 as stated: the statistics of write_new_bols count each rewritten
\* line under the category of the run written for it: nothing written is
\* none, only tabs is tabs, only spaces is spaces, both is mixed.
C12_CountsTheEmittedRun ==
  [][EndsLeadingRun
       => bol_info' = [bol_info EXCEPT ![Category(EmittedRun)] = @ + 1]]_vars

\* bytes from position i on without the leading run of spaces/tabs of each
\* line
RECURSIVE StripLeadingRuns(_, _)
StripLeadingRuns(bytes, i) ==
  IF i > Len(bytes) THEN <<>>
  ELSE IF \A j \in LineStart(bytes, i)..i : IsBlank(bytes[j])
    THEN StripLeadingRuns(bytes, i + 1)
  ELSE <<bytes[i]>> \o StripLeadingRuns(bytes, i + 1)

\* C13: whenever write_new_bols returns Ok, the input and the output are
\* the same byte sequence once each line's leading run of spaces/tabs is
\* deleted from both; spaces and tabs after a line's first other character
\* are among the bytes kept.
C13_OnlyLeadingRunsChange ==
  WriteBolOk =>
    StripLeadingRuns(writer.buf, 1) = StripLeadingRuns(input, 1)

\* a line with a leading space, then a tab and a space after its first
\* other character, rewritten to Tabs(2, true)
C13_Witness ==
  /\ WriteBolOk
  /\ new_bol = Tabs(2, TRUE)
  /\ input = <<SP, 97, TAB, SP>>
  /\ writer.buf = <<97, TAB, SP>>

\* positions of the input that hold the first character of a line that is
\* neither space nor tab (a line's own LF is one)
FirstOthers(bytes) == {p \in 1..Len(bytes) : IsFirstOther(bytes, p)}

\* C14 as stated: whenever read_bol_info returns Ok, none + spaces + tabs +
\* mixed is the number of LF-delimited lines of the input that reach a
\* character other than space or tab, empty lines and the lines after them
\* included.
C14_CountersSumToLines ==
  ReadBolOk =>
    bol_info.none + bol_info.spaces + bol_info.tabs + bol_info.mixed
      = Cardinality(FirstOthers(input))

\* the input ends in a non-empty run of spaces/tabs that starts its line
EndsInLeadingRun(bytes) ==
  /\ Len(bytes) > 0
  /\ \A j \in LineStart(bytes, Len(bytes) + 1)..Len(bytes) : IsBlank(bytes[j])
  /\ LineStart(bytes, Len(bytes) + 1) <= Len(bytes)

\* the input without the run of spaces/tabs its last line starts with
WithoutTrailingRun(bytes) ==
  SubSeq(bytes, 1, LineStart(bytes, Len(bytes) + 1) - 1)

\* C15: whenever read_bol_info returns Ok on an input that ends inside a
\* leading run of spaces/tabs, its result is the result for the same input
\* with that run removed: the run increments no counter.
C15_TrailingRunNotCounted ==
  (ReadBolOk /\ EndsInLeadingRun(input)) =>
    LET r == read_bol_info(WithoutTrailingRun(input)) IN
      r.pc = "ok" /\ bol_info = r.bol_info

\* the scan ends in at_bol mode with a run of a space and a tab pending,
\* after a line that was counted
C15_Witness ==
  /\ ReadBolOk
  /\ at_bol
  /\ num_spaces > 0 /\ num_tabs > 0
  /\ EndsInLeadingRun(input)
  /\ bol_info.none + bol_info.spaces + bol_info.tabs + bol_info.mixed = 1

\* C16: whenever write_new_eols(input, K) returns Ok, write_new_eols with K
\* on what the sink holds returns Ok with the same bytes written and the
\* same line count.
C16_RewriteEolsIdempotent ==
  WriteEolOk =>
    LET r == write_new_eols(writer.buf, new_eol) IN
      /\ r.pc = "ok"
      /\ r.writer.buf = writer.buf
      /\ r.num_lines = num_lines

\* a rewrite to CRLF of an input with a lone CR and a lone LF
C16_Witness ==
  /\ WriteEolOk
  /\ new_eol = "CrLf"
  /\ LoneCrAt(input) # {} /\ LoneLfAt(input) # {}
  /\ Len(writer.buf) > Len(input)

\* C17: whenever write_new_bols(input, B) returns Ok, write_new_bols with
\* B on what the sink holds returns Ok with the same bytes written, for
\* every target B.
C17_RewriteBolsIdempotent ==
  WriteBolOk =>
    LET r == write_new_bols(writer.buf, new_bol) IN
      r.pc = "ok" /\ r.writer.buf = writer.buf

\* a run of space, tab, space in front of a character, rewritten to
\* Tabs(2, false): a second pass has a tab-then-space run to keep
C17_Witness ==
  /\ WriteBolOk
  /\ new_bol = Tabs(2, FALSE)
  /\ input = <<SP, TAB, SP, 97>>
  /\ writer.buf = <<TAB, SP, 97>>

\* C18 as stated: whenever write_new_bols(input, B) returns Ok, the
\* BolInfo that write_new_bols with B returns on what the sink holds is the
\* BolInfo of the first pass.
C18_StatisticsStable ==
  WriteBolOk =>
    LET r == write_new_bols(writer.buf, new_bol) IN
      r.pc = "ok" /\ r.bol_info = bol_info

\* every leading run of the input is spaces only, of a length that is a
\* multiple of w, and the input does not end inside a leading run
SpaceRunsInMultiples(bytes, w) ==
  /\ ~EndsInLeadingRun(bytes)
  /\ \A p \in FirstOthers(bytes) :
       /\ \A i \in 1..Len(RunBefore(bytes, p)) : RunBefore(bytes, p)[i] = SP
       /\ Len(RunBefore(bytes, p)) % w = 0

\* C19: for an input whose leading runs are spaces only in multiples of w
\* (w >= 1) and that does not end inside a leading run, whenever
\* write_new_bols(input, Tabs(w, r)) returns Ok, write_new_bols with
\* Spaces(w) on what the sink holds writes the input back, for both r.
C19_SpacesTabsSpacesRoundTrip ==
  (/\ WriteBolOk
   /\ new_bol.kind = "Tabs"
   /\ new_bol.tab_size >= 1
   /\ SpaceRunsInMultiples(input, new_bol.tab_size)) =>
    LET r == write_new_bols(writer.buf, Spaces(new_bol.tab_size)) IN
      r.pc = "ok" /\ r.writer.buf = input

\* two spaces, a character and a newline through Tabs(2, false)
C19_Witness ==
  /\ WriteBolOk
  /\ new_bol = Tabs(2, FALSE)
  /\ input = <<SP, SP, 97, LF>>
  /\ writer.buf = <<TAB, 97, LF>>

\* C20: write_new_bols with a tab size of 0 ends as it ends with a tab
\* size of 1 on the same input and the same kind of target: the same
\* return (Ok unless the input fails to decode), the same bytes written
\* and the same statistics.
C20_TabSizeZeroIsOne ==
  (/\ op = "write_new_bols"
   /\ new_bol.tab_size = 0
   /\ pc \in {"ok", "err"}) =>
    LET r == write_new_bols(input, [new_bol EXCEPT !.tab_size = 1]) IN
      /\ r.pc = pc
      /\ r.writer.buf = writer.buf
      /\ r.bol_info = bol_info
      /\ pc = "err" => read_bol_info(input).pc = "err"

\* Tabs(0, false) on a line that starts with a tab and a space returns Ok
\* with two tabs written
C20_Witness ==
  /\ WriteBolOk
  /\ new_bol = Tabs(0, FALSE)
  /\ input = <<TAB, SP, 97>>
  /\ writer.buf = <<TAB, TAB, 97>>

(**************************************************************************)
(* Errors, the empty input, and the two functions of spacer.rs side by    *)
(* side.                                                                  *)
(**************************************************************************)
\* a continuation byte of UTF-8: 10xxxxxx
IsContinuation(bytes, i) == i <= Len(bytes) /\ bytes[i] \in 128..191

\* the bytes from position i on are well-formed UTF-8 (shortest forms only,
\* no surrogates, nothing above U+10FFFF)
RECURSIVE Utf8ValidFrom(_, _)
Utf8ValidFrom(bytes, i) ==
  IF i > Len(bytes) THEN TRUE
  ELSE LET a == bytes[i] IN
    IF a < 128 THEN Utf8ValidFrom(bytes, i + 1)
    ELSE IF a \in 194..223
      THEN IsContinuation(bytes, i + 1) /\ Utf8ValidFrom(bytes, i + 2)
    ELSE IF a \in 224..239
      THEN /\ IsContinuation(bytes, i + 1)
           /\ IsContinuation(bytes, i + 2)
           /\ (a = 224 => bytes[i + 1] >= 160)
           /\ (a = 237 => bytes[i + 1] <= 159)
           /\ Utf8ValidFrom(bytes, i + 3)
    ELSE IF a \in 240..244
      THEN /\ IsContinuation(bytes, i + 1)
           /\ IsContinuation(bytes, i + 2)
           /\ IsContinuation(bytes, i + 3)
           /\ (a = 240 => bytes[i + 1] >= 144)
           /\ (a = 244 => bytes[i + 1] <= 143)
           /\ Utf8ValidFrom(bytes, i + 4)
    ELSE FALSE

Utf8Valid(bytes) == Utf8ValidFrom(bytes, 1)

ScansAndRewrites ==
  {"read_eol_info", "write_new_eols", "read_bol_info", "write_new_bols"}

\* how the whole call of the function op ends on the reader bytes
ReturnOf(o, bytes, eol, bol) ==
  IF o = "read_eol_info" THEN read_eol_info(bytes).pc
  ELSE IF o = "write_new_eols" THEN write_new_eols(bytes, eol).pc
  ELSE IF o = "read_bol_info" THEN read_bol_info(bytes).pc
  ELSE write_new_bols(bytes, bol).pc

C22_EmptyInput ==
  (op \in ScansAndRewrites /\ input = <<>>) =>
    /\ pc # "err"
    /\ ReturnOf(op, input, new_eol, new_bol) = "ok"
    /\ pc = "ok" =>
         /\ op = "read_eol_info" =>
              eol_info = [cr |-> 0, lf |-> 0, crlf |-> 0, num_lines |-> 1]
         /\ op = "read_bol_info" =>
              bol_info = [none |-> 0, spaces |-> 0, tabs |-> 0, mixed |-> 0]
         /\ op = "write_new_eols" => num_lines = 1 /\ writer.buf = <<>>
         /\ op = "write_new_bols" =>
              /\ bol_info = [none |-> 0, spaces |-> 0, tabs |-> 0, mixed |-> 0]
              /\ writer.buf = <<>>

\* write_new_eols has returned Ok(1) on the empty reader, the sink empty
\* and flushed
C22_Witness ==
  /\ op = "write_new_eols"
  /\ input = <<>>
  /\ pc = "ok"
  /\ num_lines = 1
  /\ writer.buf = <<>>
  /\ writer.flushes = 1

\* read_bol_info's at_bol once its decoder has taken the first pos bytes
\* of the reader
RECURSIVE ReadBolUntil(_, _, _, _, _, _)
ReadBolUntil(d, info, bol, spaces, tabs, pos) ==
  IF d.pos >= pos THEN [at_bol |-> bol, pc |-> "loop"]
  ELSE LET r == ReadBolBody(d, info, bol, spaces, tabs) IN
    IF r.pc # "loop" THEN [at_bol |-> r.at_bol, pc |-> r.pc]
    ELSE ReadBolUntil(r.d, r.bol_info, r.at_bol, r.num_spaces, r.num_tabs, pos)

\* the machine of the claim: TRUE is AtBOL, FALSE is InLine; b is the first
\* byte of the character consumed
BolMachine(state, b) == IF state THEN IsBlank(b) ELSE b = LF

\* C23 as stated: after the same prefix of the input read_bol_info and
\* write_new_bols are in the same state of {AtBOL, InLine}, and each step
\* of either follows the machine in which AtBOL stays on a space or tab and
\* goes to InLine on any other character, a newline included, and InLine
\* goes back to AtBOL on a newline only.
C23_SameStateMachine ==
  /\ []((op = "write_new_bols" /\ pc = "loop") =>
          LET r == ReadBolUntil(NewDecoder(input), NewBolInfo, TRUE, 0, 0,
                                decoder.pos)
          IN r.pc = "loop" /\ r.at_bol = at_bol)
  /\ [][(/\ op \in {"read_bol_info", "write_new_bols"}
         /\ pc = "loop"
         /\ pc' = "loop")
          => at_bol' = BolMachine(at_bol, input[decoder.pos + 1])]_vars

(**************************************************************************)
(* The two rewrites one after the other.                                  *)
(**************************************************************************)
\* the bytes write_new_eols(E) and then write_new_bols(B) leave in the
\* sink, and those of the other order; <<-1>> when a call returns Err
EolsThenBols(bytes, E, B) ==
  LET a == write_new_eols(bytes, E) IN
  IF a.pc # "ok" THEN <<-1>>
  ELSE LET b == write_new_bols(a.writer.buf, B) IN
       IF b.pc # "ok" THEN <<-1>> ELSE b.writer.buf

BolsThenEols(bytes, E, B) ==
  LET a == write_new_bols(bytes, B) IN
  IF a.pc # "ok" THEN <<-1>>
  ELSE LET b == write_new_eols(a.writer.buf, E) IN
       IF b.pc # "ok" THEN <<-1>> ELSE b.writer.buf

\* every CR of the bytes is followed by an LF
NoLoneCr(bytes) == LoneCrAt(bytes) = {}

\* C24 as stated: for every input, ending target E and indentation target
\* B, write_new_eols(E) followed by write_new_bols(B) leaves the same bytes
\* as write_new_bols(B) followed by write_new_eols(E).
C24_OrderIndependent ==
  /\ WriteEolOk =>
       \A B \in BeginningOfLine :
         /\ write_new_bols(writer.buf, B).pc = "ok"
         /\ write_new_bols(writer.buf, B).writer.buf
              = BolsThenEols(input, new_eol, B)
  /\ WriteBolOk =>
       \A E \in EndOfLine :
         /\ write_new_eols(writer.buf, E).pc = "ok"
         /\ write_new_eols(writer.buf, E).writer.buf
              = EolsThenBols(input, E, new_bol)

\* C24 amended: the same, for inputs in which every CR is followed by an LF
\* and for the ending targets Lf and CrLf.
C24_OrderIndependentOnLfLines ==
  /\ (WriteEolOk /\ NoLoneCr(input) /\ new_eol # "Cr") =>
       \A B \in BeginningOfLine :
         /\ write_new_bols(writer.buf, B).pc = "ok"
         /\ write_new_bols(writer.buf, B).writer.buf
              = BolsThenEols(input, new_eol, B)
  /\ (WriteBolOk /\ NoLoneCr(input)) =>
       \A E \in EndOfLine \ {"Cr"} :
         /\ write_new_eols(writer.buf, E).pc = "ok"
         /\ write_new_eols(writer.buf, E).writer.buf
              = EolsThenBols(input, E, new_bol)

\* a CR LF ending followed by an indented line, rewritten to tabs first
C24_Witness ==
  /\ WriteBolOk
  /\ new_bol = Tabs(1, FALSE)
  /\ input = <<CR, LF, SP, 97>>
  /\ writer.buf = <<CR, LF, TAB, 97>>
  /\ EolsThenBols(input, "Lf", new_bol) = <<LF, TAB, 97>>

(**************************************************************************)
(* The sink: failures, the flush, short writes.                           *)
(**************************************************************************)
\* a write call on the sink has returned Err
WriteFailed == writer.fail_at > 0 /\ writer.writes >= writer.fail_at

\* C25: once a write call on the sink returns Err, write_new_eols and
\* write_new_bols have returned Err: the failed call is the last write
\* issued, flush is never called, and no further step of the function
\* (none that consumes input, writes or flushes) is taken.
C25_WriteFailurePropagates ==
  /\ [](WriteFailed =>
          /\ pc = "err"
          /\ writer.err
          /\ writer.writes = writer.fail_at
          /\ writer.flushes = 0)
  /\ [][~WriteFailed]_vars

\* write_new_bols to Spaces(2): the write of the rewritten run of the
\* second line is the second call and fails; the character after the run
\* is consumed but never written
C25_Witness ==
  /\ op = "write_new_bols"
  /\ new_bol = Spaces(2)
  /\ input = <<LF, TAB, 97>>
  /\ writer.fail_at = 2
  /\ ~writer.short
  /\ WriteFailed
  /\ pc = "err"
  /\ writer.buf = <<LF>>
  /\ writer.writes = 2

\* C26: whenever write_new_eols or write_new_bols returns Ok the sink has
\* been flushed exactly once; the flush is the step that leads to the
\* return, nothing is written in or after it; and when the function returns
\* Err because the input does not decode or a write failed, flush has not
\* been called.
C26_FlushedOnceOnSuccess ==
  /\ [](pc = "ok" => (writer.flushes = 1 /\ ~writer.err))
  /\ []((pc = "err" /\ (WriteFailed \/ ~Utf8Valid(input)))
          => writer.flushes = 0)
  /\ [][writer'.flushes # writer.flushes =>
          /\ writer'.flushes = writer.flushes + 1
          /\ pc = "flush"
          /\ pc' \in {"ok", "err"}
          /\ pc' = "err" <=> writer.flush_fails
          /\ writer'.writes = writer.writes
          /\ writer'.buf = writer.buf]_vars
  /\ [][writer.flushes > 0 => writer' = writer]_vars

\* write_new_eols has written twice, then flushed once and returned Ok
C26_Witness ==
  /\ op = "write_new_eols"
  /\ pc = "ok"
  /\ input = <<97, CR, LF>>
  /\ new_eol = "Cr"
  /\ writer.buf = <<97, CR>>
  /\ writer.writes = 2
  /\ writer.flushes = 1

\* C28: whenever write_new_bols returns Ok on an input that ends inside a
\* leading run of spaces/tabs, what it wrote and what it counted are what
\* it writes and counts for the input without that run, for every target:
\* the run is neither written nor counted.
C28_TrailingRunDropped ==
  (WriteBolOk /\ EndsInLeadingRun(input)) =>
    LET r == write_new_bols(WithoutTrailingRun(input), new_bol) IN
      /\ r.pc = "ok"
      /\ r.writer.buf = writer.buf
      /\ r.bol_info = bol_info
      /\ Len(writer.buf) > 0 => writer.buf[Len(writer.buf)] = LF

\* a line, then a last line of a tab and a space and no newline: with
\* Spaces(2) only the first line reaches the sink
C28_Witness ==
  /\ WriteBolOk
  /\ new_bol = Spaces(2)
  /\ input = <<97, LF, TAB, SP>>
  /\ writer.buf = <<97, LF>>
  /\ s = <<TAB, SP>>
  /\ bol_info = [none |-> 1, spaces |-> 0, tabs |-> 0, mixed |-> 0]

\* what the rewrite makes of the whole input: the bytes a sink that takes
\* every byte it is handed ends up with
TransformedOutput ==
  IF op = "write_new_eols" THEN write_new_eols(input, new_eol).writer.buf
  ELSE write_new_bols(input, new_bol).writer.buf

\* C29 as stated: for any sink, one that takes only a prefix of a buffer
\* and reports the shorter count included, whenever write_new_eols or
\* write_new_bols returns Ok the sink holds every byte of the transformed
\* output, in order.
C29_EveryByteReachesTheSink ==
  (op \in {"write_new_eols", "write_new_bols"} /\ pc = "ok") =>
    writer.buf = TransformedOutput

(**************************************************************************)
(* The commands.                                                          *)
(**************************************************************************)
\* what the rewrite of the command makes of the whole input file
RewriteOfFile ==
  IF op = "ender" THEN write_new_eols(input, new_eol).writer.buf
  ELSE write_new_bols(input, new_bol).writer.buf

\* C27: in run of ender and of spacer with -n given, the scan reads the
\* whole input, then the reader is rewound to offset 0, then the sink is
\* opened or created, then the rewrite runs from offset 0 over the whole
\* input; the reader goes back only in the seek of run, made once between
\* the two calls; and when the scan returns Err the output file is not
\* created and the rewrite does not start. Without -n nothing of this
\* happens.
C27_ScanRewindOpenRewrite ==
  /\ [](cmd.seeks > 0 => (cmd.seeks = 1 /\ cmd.scanned = "ok"))
  /\ [](cmd.opened => cmd.seeks = 1)
  /\ [](cmd.created => cmd.opened)
  /\ [](cmd.rewritten # "no" => cmd.opened)
  /\ [](cmd.scanned = "err" =>
          /\ pc = "err"
          /\ ~cmd.opened
          /\ ~cmd.created
          /\ cmd.rewritten = "no"
          /\ writer = NewWriter)
  /\ [](cmd.arg = "none" => (cmd.seeks = 0 /\ ~cmd.opened))
  /\ []((pc = "ok" /\ cmd.arg # "none") =>
          /\ cmd.rewritten = "ok"
          /\ cmd.pos = Len(input)
          /\ writer.buf = RewriteOfFile)
  /\ [][cmd'.seeks # cmd.seeks =>
          /\ cmd.pos = Len(input)
          /\ cmd'.pos = 0
          /\ ~cmd.opened]_vars
  /\ [][cmd'.opened # cmd.opened =>
          (cmd.pos = 0 /\ cmd'.pos = 0 /\ cmd.rewritten = "no")]_vars
  /\ [][cmd'.rewritten # cmd.rewritten => (cmd.pos = 0 /\ cmd.opened)]_vars
  /\ [][cmd'.pos < cmd.pos => cmd'.seeks = cmd.seeks + 1]_vars

\* ender -n cr-lf -o out on "a\n": scanned, rewound once, out created, the
\* whole file rewritten, and both types reported
C27_Witness ==
  /\ op = "ender"
  /\ pc = "ok"
  /\ cmd.arg = "cr-lf"
  /\ cmd.output_file
  /\ cmd.created
  /\ cmd.seeks = 1
  /\ input = <<97, LF>>
  /\ writer.buf = <<97, CR, LF>>
  /\ cmd.report = <<"lf", "cr-lf">>

\* the categories of the leading runs of the lines of the bytes that reach
\* a character other than space or tab
LineCategories(bytes) ==
  {Category(RunBefore(bytes, p)) : p \in FirstOthers(bytes)}

\* C30 as stated: the type spacer reports for the file it scanned is
\* "mixed" whenever a line of the file starts with both spaces and tabs or
\* the file has both a tab-indented and a space-indented line, "tabs" only
\* when every indented line is tab-indented, and "spaces" only when every
\* indented line is space-indented.
C30_ReportsBolTypeFaithfully ==
  (op = "spacer" /\ pc = "ok") =>
    LET cats == LineCategories(input)
        reported == cmd.report[1]
    IN /\ ("mixed" \in cats \/ {"tabs", "spaces"} \subseteq cats)
            => reported = "mixed"
       /\ reported = "tabs" => cats \cap {"spaces", "mixed"} = {}
       /\ reported = "spaces" => cats \cap {"tabs", "mixed"} = {}

=============================================================================
